---- MODULE Spec2Model ----
(***************************************************************************)
(* Model of the nix fetchers: the GitHub input (github.cc), the scheme     *)
(* registry and the fetchTree wrapper (fetchers.cc) and the fetcher cache  *)
(* interface (cache.hh).                                                   *)
(*                                                                         *)
(* Strings are sequences of one-character strings, so that formatting      *)
(* (to_string, gitRev) and parsing (parseURL, tokenizeString, Hash(s))     *)
(* are computed and not assumed.  std::optional<T> is <<>> (none) or       *)
(* <<v>>.  Attrs (std::map<std::string, std::variant<std::string,          *)
(* int64_t>>) are functions from names to [str |-> s] or [int |-> n].      *)
(***************************************************************************)
EXTENDS Integers, Sequences, FiniteSets, TLC

VARIABLES
    inputSchemes,   \* fetchers.cc:9   the registry, in registration order
    registered,     \* history: the arguments of registerInputScheme, in call order
    cur,            \* the input the caller currently holds (optional)
    res,            \* the outcome of the caller's last registry/conversion call
    cache,          \* the fetcher cache (getCache()): a set of records
    store,          \* the store paths that are valid in the store
    call,           \* the frame of the fetchTree call in progress or just ended
    last,           \* summary of the fetchTree call before that one, if it succeeded
    calls,          \* the number of fetchTree calls so far
    other,          \* the frame of a second fetchTree call running concurrently
    head            \* the revision the remote branch points to while two calls run

vars == <<inputSchemes, registered, cur, res, cache, store, call, last, calls,
          other, head>>

----------------------------------------------------------------------------
(* std::optional *)

None == <<>>
Some(v) == <<v>>
IsSome(o) == o # <<>>
Get(o) == o[1]

----------------------------------------------------------------------------
(* Strings *)

Rep(c, n) == [i \in 1..n |-> c]

Lower == {"a","b","c","d","e","f","g","h","i","j","k","l","m",
          "n","o","p","q","r","s","t","u","v","w","x","y","z"}
Upper == {"A","B","C","D","E","F","G","H","I","J","K","L","M",
          "N","O","P","Q","R","S","T","U","V","W","X","Y","Z"}
Digit == {"0","1","2","3","4","5","6","7","8","9"}

HexLower == <<"0","1","2","3","4","5","6","7","8","9","a","b","c","d","e","f">>
HexUpper == <<"0","1","2","3","4","5","6","7","8","9","A","B","C","D","E","F">>
HexChars == {HexLower[i] : i \in 1..16} \cup {HexUpper[i] : i \in 1..16}

\* The value of one base-16 digit, either case.
HexVal(c) == (CHOOSE i \in 1..16 : HexLower[i] = c \/ HexUpper[i] = c) - 1

RECURSIVE IndexFrom(_, _, _)
IndexFrom(s, c, k) ==
    IF k > Len(s) THEN 0
    ELSE IF s[k] = c THEN k
    ELSE IndexFrom(s, c, k + 1)

\* The position of the first c in s, 0 if there is none.
IndexOf(s, c) == IndexFrom(s, c, 1)

RECURSIVE Split(_, _)
\* The pieces of s between occurrences of c, empty pieces included.
Split(s, c) ==
    LET i == IndexOf(s, c) IN
    IF i = 0 THEN <<s>>
    ELSE <<SubSeq(s, 1, i-1)>> \o Split(SubSeq(s, i+1, Len(s)), c)

\* tokenizeString<vector<string>>(s, "/"): the non-empty pieces.
tokenizeString(s, c) == SelectSeq(Split(s, c), LAMBDA t : t # <<>>)

s_github  == <<"g","i","t","h","u","b">>
s_git     == <<"g","i","t">>
s_tarball == <<"t","a","r","b","a","l","l">>
s_file    == <<"f","i","l","e">>
s_master  == <<"m","a","s","t","e","r">>
s_dev     == <<"d","e","v">>
s_alice   == <<"a","l","i","c","e">>
s_bob     == <<"b","o","b">>
s_proj    == <<"p","r","o","j">>
s_ref     == <<"r","e","f">>
s_rev     == <<"r","e","v">>
s_dir     == <<"d","i","r">>
s_sha256  == <<"s","h","a","2","5","6">>
s_git_tarball == s_git \o <<"-">> \o s_tarball

----------------------------------------------------------------------------
(* Hash: an algorithm tag and the digest, here as base-16 digit values.    *)

\* The number of base-16 digits of a SHA-1 (a git revision) and of a
\* SHA-256 (a narHash) in the model; git has 40 and 64.
RevLen == 4
NarHashLen == 6

hashSize(type) == IF type = "sha1" THEN RevLen ELSE NarHashLen

\* Hash::to_string(Base16, false) and Hash::gitRev(): lower-case base 16.
to_string_Base16(h) == [i \in 1..Len(h.digest) |-> HexLower[h.digest[i] + 1]]

gitRev(h) == to_string_Base16(h)

\* Hash(s, ht): parses the base-16 form of a hash of type ht; none stands
\* for the BadHash exception.
Hash(s, type) ==
    IF Len(s) = hashSize(type) /\ \A i \in 1..Len(s) : s[i] \in HexChars
    THEN Some([type |-> type, digest |-> [i \in 1..Len(s) |-> HexVal(s[i])]])
    ELSE None

\* Hash::to_string(SRI): "<type>-<digest>".
to_string_SRI(h) == s_sha256 \o <<"-">> \o to_string_Base16(h)

\* Hash(s): parses "<type>-<digest>".
HashSRI(s) ==
    LET i == IndexOf(s, "-") IN
    IF i > 0 /\ SubSeq(s, 1, i-1) = s_sha256
    THEN Hash(SubSeq(s, i+1, Len(s)), "sha256")
    ELSE None

\* regex.hh: revRegex "[0-9a-fA-F]{40}" (RevLen digits here), refRegex
\* "[a-zA-Z0-9][a-zA-Z0-9_.-]*".
revRegex(s) == Len(s) = RevLen /\ \A i \in 1..Len(s) : s[i] \in HexChars

refRegex(s) ==
    /\ Len(s) >= 1
    /\ s[1] \in Lower \cup Upper \cup Digit
    /\ \A i \in 2..Len(s) : s[i] \in Lower \cup Upper \cup Digit \cup {"_", ".", "-"}

RevA == [type |-> "sha1", digest |-> Rep(10, RevLen)]
RevB == [type |-> "sha1", digest |-> Rep(11, RevLen)]
Revs == {RevA, RevB}

----------------------------------------------------------------------------
(* Attrs *)

AttrStr(s) == [str |-> s]
AttrInt(n) == [int |-> n]

\* std::map::emplace: no effect when the key is present.
emplace(attrs, name, value) ==
    IF name \in DOMAIN attrs THEN attrs ELSE attrs @@ (name :> value)

\* An attribute that is present with the other type: every getter throws.
wrongType(attrs, name, tag) == name \in DOMAIN attrs /\ DOMAIN attrs[name] # {tag}

\* maybeGetStrAttr: none when the attribute is missing.  The caller checks
\* wrongType first (the getter throws there).
maybeGetStrAttr(attrs, name) ==
    IF name \in DOMAIN attrs /\ DOMAIN attrs[name] = {"str"}
    THEN Some(attrs[name].str) ELSE None

\* getStrAttr / getIntAttr throw when the attribute is missing or of the
\* other type: none stands for the exception.
getStrAttr(attrs, name) == maybeGetStrAttr(attrs, name)

getIntAttr(attrs, name) ==
    IF name \in DOMAIN attrs /\ DOMAIN attrs[name] = {"int"}
    THEN Some(attrs[name].int) ELSE None

EmptyAttrs == [n \in {} |-> AttrStr(<<>>)]

----------------------------------------------------------------------------
(* GitHubInput (github.cc:16-199) and Input (fetchers.cc:45-83)            *)

GitHubInput(owner, repo, ref, rev, narHash) ==
    [kind |-> "github", owner |-> owner, repo |-> repo,
     ref |-> ref, rev |-> rev, narHash |-> narHash]

\* GitHubInput::type()
type(i) == IF i.kind = "github" THEN s_github ELSE i.type

\* GitHubInput::operator==: the dynamic_cast fails on another kind of
\* input; narHash is not compared.
InputEq(a, b) ==
    /\ a.kind = "github"
    /\ b.kind = "github"
    /\ a.owner = b.owner
    /\ a.repo = b.repo
    /\ a.rev = b.rev
    /\ a.ref = b.ref

\* GitHubInput::isImmutable
isImmutable(i) == IsSome(i.rev)

\* GitHubInput::to_string.  err = "assert" is the failed assertion.
to_string(i) ==
    LET s == s_github \o <<":">> \o i.owner \o <<"/">> \o i.repo IN
    IF IsSome(i.ref) /\ IsSome(i.rev)
    THEN [err |-> "assert", str |-> <<>>]
    ELSE [err |-> "",
          str |-> s \o (IF IsSome(i.ref) THEN <<"/">> \o Get(i.ref) ELSE <<>>)
                    \o (IF IsSome(i.rev)
                        THEN <<"/">> \o to_string_Base16(Get(i.rev)) ELSE <<>>)]

\* GitHubInput::toAttrsInternal
toAttrsInternal(i) ==
    LET a1 == emplace(EmptyAttrs, "owner", AttrStr(i.owner))
        a2 == emplace(a1, "repo", AttrStr(i.repo))
        a3 == IF IsSome(i.ref) THEN emplace(a2, "ref", AttrStr(Get(i.ref))) ELSE a2
    IN  IF IsSome(i.rev) THEN emplace(a3, "rev", AttrStr(gitRev(Get(i.rev)))) ELSE a3

\* Input::toAttrs
toAttrs(i) ==
    LET a1 == toAttrsInternal(i)
        a2 == IF IsSome(i.narHash)
              THEN emplace(a1, "narHash", AttrStr(to_string_SRI(Get(i.narHash))))
              ELSE a1
    IN  emplace(a2, "type", AttrStr(type(i)))

\* GitHubInput::applyOverrides
applyOverrides(i, ref, rev) ==
    IF ~IsSome(ref) /\ ~IsSome(rev) THEN i
    ELSE [i EXCEPT !.ref = IF IsSome(ref) THEN ref ELSE @,
                   !.rev = IF IsSome(rev) THEN rev ELSE @]

----------------------------------------------------------------------------
(* ParsedURL and parseURL (parse.hh)                                       *)

RECURSIVE decodeQueryFrom(_, _, _)
\* decodeQuery: "name=value" pieces separated by "&"; emplace keeps the
\* first value of a repeated name.
decodeQueryFrom(parts, k, acc) ==
    IF k > Len(parts) THEN acc
    ELSE LET e == IndexOf(parts[k], "=") IN
         decodeQueryFrom(parts, k + 1,
            IF e = 0 THEN acc
            ELSE emplace(acc, SubSeq(parts[k], 1, e-1),
                         SubSeq(parts[k], e+1, Len(parts[k]))))

decodeQuery(q) == decodeQueryFrom(tokenizeString(q, "&"), 1, [n \in {} |-> <<>>])

\* parseURL: "<scheme>:<path>[?<query>]"; ok = FALSE is BadURL.
parseURL(s) ==
    LET c == IndexOf(s, ":")
        rest == SubSeq(s, c + 1, Len(s))
        q == IndexOf(rest, "?")
    IN  IF c <= 1
        THEN [ok |-> FALSE, url |-> s, scheme |-> <<>>, path |-> <<>>,
              query |-> decodeQuery(<<>>)]
        ELSE [ok |-> TRUE, url |-> s, scheme |-> SubSeq(s, 1, c-1),
              path |-> IF q = 0 THEN rest ELSE SubSeq(rest, 1, q-1),
              query |-> IF q = 0 THEN decodeQuery(<<>>)
                        ELSE decodeQuery(SubSeq(rest, q+1, Len(rest)))]

----------------------------------------------------------------------------
(* GitHubInputScheme (github.cc:201-261).  A scheme's answer is            *)
(* [status, input]: status "none" is nullptr, "ok" an input, anything else *)
(* the exception thrown.                                                   *)

NoInput(status) == [status |-> status, input |-> None]
AnInput(i) == [status |-> "ok", input |-> Some(i)]

\* github.cc:210-219: the path segments.
fromPath(url, path) ==
    IF Len(path) = 2 THEN AnInput(GitHubInput(<<>>, <<>>, None, None, None))
    ELSE IF Len(path) = 3
    THEN IF revRegex(path[3])
         THEN AnInput(GitHubInput(<<>>, <<>>, None, Hash(path[3], "sha1"), None))
         ELSE IF refRegex(path[3])
         THEN AnInput(GitHubInput(<<>>, <<>>, Some(path[3]), None, None))
         ELSE NoInput("BadURL")
    ELSE NoInput("BadURL")

\* github.cc:221-234: the query parameters, in the order of std::map ("ref"
\* before "rev"); other names are skipped.
fromQueryRef(url, r) ==
    IF r.status # "ok" \/ s_ref \notin DOMAIN url.query THEN r
    ELSE IF ~refRegex(url.query[s_ref]) THEN NoInput("BadURL")
    ELSE IF IsSome(Get(r.input).ref) THEN NoInput("BadURL")
    ELSE AnInput([Get(r.input) EXCEPT !.ref = Some(url.query[s_ref])])

fromQueryRev(url, r) ==
    IF r.status # "ok" \/ s_rev \notin DOMAIN url.query THEN r
    ELSE IF IsSome(Get(r.input).rev) THEN NoInput("BadURL")
    ELSE IF ~IsSome(Hash(url.query[s_rev], "sha1")) THEN NoInput("BadHash")
    ELSE AnInput([Get(r.input) EXCEPT !.rev = Hash(url.query[s_rev], "sha1")])

\* GitHubInputScheme::inputFromURL
GitHubInputFromURL(url) ==
    IF url.scheme # s_github THEN NoInput("none")
    ELSE LET path == tokenizeString(url.path, "/")
             r == fromQueryRev(url, fromQueryRef(url, fromPath(url, path)))
         IN  IF r.status # "ok" THEN r
             ELSE IF IsSome(Get(r.input).ref) /\ IsSome(Get(r.input).rev)
             THEN NoInput("BadURL")
             ELSE AnInput([Get(r.input) EXCEPT !.owner = path[1], !.repo = path[2]])

GitHubAttrNames == {"type", "owner", "repo", "ref", "rev"}

\* What getStrAttr throws for a name, "" when it returns.
strAttrError(attrs, name) ==
    IF name \notin DOMAIN attrs THEN "MissingAttr"
    ELSE IF wrongType(attrs, name, "str") THEN "WrongAttrType"
    ELSE ""

\* GitHubInputScheme::inputFromAttrs
GitHubInputFromAttrs(attrs) ==
    IF wrongType(attrs, "type", "str") THEN NoInput("WrongAttrType")
    ELSE IF maybeGetStrAttr(attrs, "type") # Some(s_github) THEN NoInput("none")
    ELSE IF \E name \in DOMAIN attrs : name \notin GitHubAttrNames
    THEN NoInput("UnsupportedAttr")
    ELSE IF strAttrError(attrs, "owner") # "" THEN NoInput(strAttrError(attrs, "owner"))
    ELSE IF strAttrError(attrs, "repo") # "" THEN NoInput(strAttrError(attrs, "repo"))
    ELSE IF wrongType(attrs, "ref", "str") \/ wrongType(attrs, "rev", "str")
    THEN NoInput("WrongAttrType")
    ELSE LET rev == maybeGetStrAttr(attrs, "rev") IN
         IF IsSome(rev) /\ ~IsSome(Hash(Get(rev), "sha1")) THEN NoInput("BadHash")
         ELSE AnInput(GitHubInput(
                Get(getStrAttr(attrs, "owner")),
                Get(getStrAttr(attrs, "repo")),
                maybeGetStrAttr(attrs, "ref"),
                IF IsSome(rev) THEN Hash(Get(rev), "sha1") ELSE None,
                None))

----------------------------------------------------------------------------
(* Other input schemes.  Only their interface (InputScheme) is used by the *)
(* registry: a scheme answers for the URL schemes and attribute types it   *)
(* knows and returns nullptr for all others.  "A" knows git, "B" knows git *)
(* and tarball, so that two registered schemes can answer the same input.  *)

OtherSchemes == {"A", "B"}

Knows(scheme) == IF scheme = "A" THEN {s_git} ELSE {s_git, s_tarball}

OtherInput(scheme, t) == [kind |-> "other", by |-> scheme, type |-> t, narHash |-> None]

\* InputScheme::inputFromURL
SchemeInputFromURL(scheme, url) ==
    IF scheme = "github" THEN GitHubInputFromURL(url)
    ELSE IF url.scheme \in Knows(scheme) THEN AnInput(OtherInput(scheme, url.scheme))
    ELSE NoInput("none")

\* InputScheme::inputFromAttrs
SchemeInputFromAttrs(scheme, attrs) ==
    IF scheme = "github" THEN GitHubInputFromAttrs(attrs)
    ELSE IF wrongType(attrs, "type", "str") THEN NoInput("WrongAttrType")
    ELSE IF IsSome(maybeGetStrAttr(attrs, "type"))
            /\ Get(maybeGetStrAttr(attrs, "type")) \in Knows(scheme)
    THEN AnInput(OtherInput(scheme, Get(maybeGetStrAttr(attrs, "type"))))
    ELSE NoInput("none")

----------------------------------------------------------------------------
(* The registry (fetchers.cc:9-43).  A dispatch answers                    *)
(* [err, input, consulted]: err "" with the input, or the exception;       *)
(* consulted lists the schemes that were asked, in order.                  *)

\* registerInputScheme: push_back
registerInputScheme(schemes, scheme) == Append(schemes, scheme)

RECURSIVE inputFromURLLoopLast(_, _, _)
\* Variant: the loop goes on after a scheme answered, so the last answer wins.
inputFromURLLoopLast(schemes, url, k) ==
    IF k > Len(schemes)
    THEN [err |-> "UnsupportedInput", input |-> None, consulted |-> <<>>]
    ELSE LET r == SchemeInputFromURL(schemes[k], url)
             rest == inputFromURLLoopLast(schemes, url, k + 1)
         IN  IF r.status = "none" \/ rest.err = ""
             THEN [rest EXCEPT !.consulted = <<schemes[k]>> \o @]
             ELSE [err |-> IF r.status = "ok" THEN "" ELSE r.status,
                   input |-> r.input, consulted |-> <<schemes[k]>> \o rest.consulted]

RECURSIVE inputFromURLLoop(_, _, _)
\* fetchers.cc:19-23: the loop of inputFromURL(const ParsedURL &), from
\* position k.
inputFromURLLoop(schemes, url, k) ==
    IF k > Len(schemes)
    THEN [err |-> "UnsupportedInput", input |-> None, consulted |-> <<>>]
    ELSE LET r == SchemeInputFromURL(schemes[k], url) IN
         IF r.status = "none"
         THEN LET rest == inputFromURLLoop(schemes, url, k + 1) IN
              [rest EXCEPT !.consulted = <<schemes[k]>> \o @]
         ELSE [err |-> IF r.status = "ok" THEN "" ELSE r.status,
               input |-> r.input, consulted |-> <<schemes[k]>>]

\* inputFromURL(const std::string &): parseURL, then the loop.
inputFromURL(schemes, s) ==
    LET url == parseURL(s) IN
    IF ~url.ok THEN [err |-> "BadURL", input |-> None, consulted |-> <<>>]
    ELSE inputFromURLLoop(schemes, url, 1)

\* fetchers.cc:36-38: attach narHash to the scheme's input.
attachNarHash(attrs, r) ==
    IF wrongType(attrs, "narHash", "str")
    THEN [r EXCEPT !.err = "WrongAttrType", !.input = None]
    ELSE LET narHash == maybeGetStrAttr(attrs, "narHash") IN
         IF ~IsSome(narHash) THEN r
         ELSE IF ~IsSome(HashSRI(Get(narHash)))
         THEN [r EXCEPT !.err = "BadHash", !.input = None]
         ELSE [r EXCEPT !.input = Some([Get(@) EXCEPT !.narHash = HashSRI(Get(narHash))])]

RECURSIVE inputFromAttrsLoop(_, _, _)
\* fetchers.cc:33-42: the loop of inputFromAttrs, from position k.
inputFromAttrsLoop(schemes, attrs, k) ==
    IF k > Len(schemes)
    THEN [err |-> "UnsupportedInput", input |-> None, consulted |-> <<>>]
    ELSE LET r == SchemeInputFromAttrs(schemes[k], attrs) IN
         IF r.status = "none"
         THEN LET rest == inputFromAttrsLoop(schemes, attrs, k + 1) IN
              [rest EXCEPT !.consulted = <<schemes[k]>> \o @]
         ELSE IF r.status = "ok"
         THEN attachNarHash(attrs, [err |-> "", input |-> r.input,
                                    consulted |-> <<schemes[k]>>])
         ELSE [err |-> r.status, input |-> r.input, consulted |-> <<schemes[k]>>]

inputFromAttrs(schemes, attrs) == inputFromAttrsLoop(schemes, attrs, 1)

----------------------------------------------------------------------------
(* Settings, store, downloader and cache, as the fetcher uses them.       *)

\* settings.tarballTtl, in ticks of the model's clock.
tarballTtl == 1

\* github.cc:149: the ttl of a tarball request.
InfiniteTtl == 1000000000

\* settings.githubAccessToken: empty, or a token.
AccessTokens == {<<>>, <<"t","o","k">>}

\* The store path of the unpacked tarball of a revision of a repository.
TarballStorePath(owner, repo, rev) ==
    [name |-> "source", owner |-> owner, repo |-> repo, rev |-> rev]

\* Store::toRealPath, Store::printStorePath / parseStorePath
toRealPath(sp) == [real |-> sp]
printStorePath(sp) == [printed |-> sp]
parseStorePath(s) == s.printed

\* Store::queryPathInfo(sp)->narHash: the hash of the path's contents.
NarHashOf(sp) ==
    [type |-> "sha256",
     digest |-> [i \in 1..hashSize("sha256") |->
                    IF i = 1 THEN Len(sp.owner)
                    ELSE IF i = 2 THEN sp.rev.digest[1]
                    ELSE 0]]

\* The Last-Modified the downloader reports for a tarball.
LastModifiedOf(rev) == rev.digest[1]

\* Cache::lookup: a record with these inAttrs whose store path is valid
\* and that is immutable or not older than tarballTtl.
IsHit(e, st, inAttrs) ==
    /\ e.inAttrs = inAttrs
    /\ e.storePath \in st
    /\ (e.immutable \/ e.age <= tarballTtl)

cacheLookup(c, st, inAttrs) ==
    IF \E e \in c : IsHit(e, st, inAttrs)
    THEN LET e == CHOOSE e \in c : IsHit(e, st, inAttrs) IN
         Some([first |-> e.infoAttrs, second |-> e.storePath])
    ELSE None

\* Cache::add: inserts or replaces the record of inAttrs.
cacheAdd(c, inAttrs, infoAttrs, storePath, immutable) ==
    {e \in c : e.inAttrs # inAttrs} \cup
    {[inAttrs |-> inAttrs, infoAttrs |-> infoAttrs, storePath |-> storePath,
      immutable |-> immutable, age |-> 0]}

----------------------------------------------------------------------------
(* GitHubInput::fetchTreeInternal (github.cc:73-184), one step per call    *)
(* to the cache, the downloader or the store.                              *)

Tree(actualPath, storePath, narHash, lastModified) ==
    [actualPath |-> actualPath, storePath |-> storePath,
     info |-> [narHash |-> narHash, lastModified |-> lastModified]]

IdleCall ==
    [pc |-> "idle", this |-> None, rev |-> None, input |-> None, tree |-> None,
     trace |-> <<>>, outcome |-> "", before |-> {}, since |-> 0]

This(f) == Get(f.this)

\* Variant: no default branch; an input without ref has the empty ref.
effectiveRefNoDefault(this) == IF IsSome(this.ref) THEN Get(this.ref) ELSE <<>>

\* github.cc:76: this->ref.value_or("master")
effectiveRef(this) == IF IsSome(this.ref) THEN Get(this.ref) ELSE s_master

\* github.cc:78-83
mutableAttrs(this) ==
    [type |-> AttrStr(s_github), owner |-> AttrStr(this.owner),
     repo |-> AttrStr(this.repo), ref |-> AttrStr(effectiveRef(this))]

\* github.cc:118-121
immutableAttrs(rev) ==
    [type |-> AttrStr(s_git_tarball), rev |-> AttrStr(gitRev(rev))]

\* github.cc:163-166
infoAttrs(rev, lastModified) ==
    [rev |-> AttrStr(gitRev(rev)), lastModified |-> AttrInt(lastModified)]

\* Variant: the copy keeps the caller's ref.
canonicalInputKeepsRef(this, rev) == [this EXCEPT !.rev = Some(rev)]

\* github.cc:87-89 and 114-116: a copy of *this with ref cleared and rev set.
canonicalInput(this, rev) == [this EXCEPT !.ref = None, !.rev = Some(rev)]

\* github.cc:90-99 and 124-133: the tree of a cache hit.
cachedTree(hit) ==
    Tree(Some(toRealPath(hit.second)), hit.second, None,
         getIntAttr(hit.first, "lastModified"))

\* Variant: the mutable lookup is tried whether or not a rev is given.
firstStepAlwaysMutable(this) == "lookupMutable"

\* Variant: the mutable key is never written.
stepAfterDownloadSkipsMutable(this) == "addImmutable"

\* github.cc:85 and 103: a call with a rev skips the mutable lookup and the
\* HEAD request.
firstStep(this) == IF ~IsSome(this.rev) THEN "lookupMutable" ELSE "lookupImmutable"

\* github.cc:168: the mutable key is written only if the caller gave no rev.
stepAfterDownload(this) == IF ~IsSome(this.rev) THEN "addMutable" ELSE "addImmutable"

LookupEvent(key, hit) == [op |-> "lookup", key |-> key, hit |-> hit]

\* result: what the downloader answered (none when it failed).
DownloadEvent(url, ttl, unpack, ok, result) ==
    [op |-> "download", url |-> url, ttl |-> ttl, unpack |-> unpack, ok |-> ok,
     result |-> IF ok THEN Some(result) ELSE None]

AddEvent(key, info, storePath, immutable, ok) ==
    [op |-> "add", key |-> key, info |-> info, storePath |-> storePath,
     immutable |-> immutable, ok |-> ok]

Failed(f, outcome, event) ==
    [f EXCEPT !.pc = "done", !.outcome = outcome, !.trace = Append(@, event)]

\* Entry of fetchTree: github.cc:75.
startCall(this, c) ==
    [pc |-> firstStep(this), this |-> Some(this), rev |-> this.rev, input |-> None,
     tree |-> None, trace |-> <<>>, outcome |-> "", before |-> c, since |-> 0]

\* github.cc:85-101
stepLookupMutable(f, c, st) ==
    LET hit == cacheLookup(c, st, mutableAttrs(This(f)))
        ev == LookupEvent(mutableAttrs(This(f)), IsSome(hit))
    IN  IF ~IsSome(hit)
        THEN [f EXCEPT !.pc = "resolve", !.trace = Append(@, ev)]
        ELSE LET rev == getStrAttr(Get(hit).first, "rev") IN
             IF ~IsSome(rev) THEN Failed(f, "MissingAttr", ev)
             ELSE IF ~IsSome(Hash(Get(rev), "sha1")) THEN Failed(f, "BadHash", ev)
             ELSE [f EXCEPT !.pc = "wrapper", !.trace = Append(@, ev),
                            !.input = Some(canonicalInput(This(f),
                                               Get(Hash(Get(rev), "sha1")))),
                            !.tree = Some(cachedTree(Get(hit)))]

\* github.cc:104-105
commitsUrl(this) ==
    [api |-> "commits", owner |-> this.owner, repo |-> this.repo,
     target |-> effectiveRef(this), token |-> <<>>]

\* Variant: the HEAD request is cached for ever.
headTtlInfinite(rev) == InfiniteTtl

\* github.cc:107: at this point rev is not set.
headTtl(rev) == IF IsSome(rev) THEN InfiniteTtl ELSE tarballTtl

\* Variant: a failed HEAD request is swallowed and an assumed revision used.
stepResolveFallsBack(f, ok, sha) ==
    [f EXCEPT !.pc = "lookupImmutable", !.rev = Some(RevA),
              !.trace = Append(@, DownloadEvent(commitsUrl(This(f)), headTtl(f.rev),
                                                FALSE, ok, sha))]

\* github.cc:103-112; sha is the "sha" member of the response.
stepResolve(f, ok, sha) ==
    LET ev == DownloadEvent(commitsUrl(This(f)), headTtl(f.rev), FALSE, ok, sha) IN
    IF ~ok THEN Failed(f, "DownloadFailure", ev)
    ELSE IF ~IsSome(Hash(sha, "sha1")) THEN Failed(f, "BadHash", ev)
    ELSE [f EXCEPT !.pc = "lookupImmutable", !.trace = Append(@, ev),
                   !.rev = Hash(sha, "sha1")]

\* github.cc:114-134
stepLookupImmutable(f, c, st) ==
    LET rev == Get(f.rev)
        hit == cacheLookup(c, st, immutableAttrs(rev))
        ev == LookupEvent(immutableAttrs(rev), IsSome(hit))
        g == [f EXCEPT !.input = Some(canonicalInput(This(f), rev)),
                       !.trace = Append(@, ev)]
    IN  IF ~IsSome(hit) THEN [g EXCEPT !.pc = "download"]
        ELSE [g EXCEPT !.pc = "wrapper", !.tree = Some(cachedTree(Get(hit)))]

\* github.cc:139-144
tarballUrl(this, rev, accessToken) ==
    [api |-> "tarball", owner |-> this.owner, repo |-> this.repo,
     target |-> to_string_Base16(rev), token |-> accessToken]

\* github.cc:146-161; the downloader unpacks into the store.
stepDownload(f, ok, accessToken) ==
    LET rev == Get(f.rev)
        sp == TarballStorePath(This(f).owner, This(f).repo, rev)
        ev == DownloadEvent(tarballUrl(This(f), rev, accessToken), InfiniteTtl, TRUE, ok,
                            printStorePath(sp))
    IN  IF ~ok THEN Failed(f, "DownloadFailure", ev)
        ELSE [f EXCEPT !.pc = stepAfterDownload(This(f)), !.trace = Append(@, ev),
                       !.tree = Some(Tree(Some(toRealPath(sp)),
                                          parseStorePath(printStorePath(sp)),
                                          None, Some(LastModifiedOf(rev))))]

\* github.cc:168-174 (mutable = TRUE) and 176-181 (mutable = FALSE): the
\* record that is added.
\* Variant: both records are added under the mutable key.
addKeyAlwaysMutable(f, mutable) == mutableAttrs(This(f))

\* Variant: the immutable key names the repository's owner too.
addKeyWithOwner(f, mutable) ==
    IF mutable THEN mutableAttrs(This(f))
    ELSE [type |-> AttrStr(s_git_tarball), owner |-> AttrStr(This(f).owner),
          rev |-> AttrStr(gitRev(Get(f.rev)))]

\* Variant: the immutable key is built from the tarball URL's last segment,
\* access token included.
addKeyWithToken(f, mutable) ==
    IF mutable THEN mutableAttrs(This(f))
    ELSE LET k == CHOOSE k \in 1..Len(f.trace) : f.trace[k].op = "download"
                                                  /\ f.trace[k].url.api = "tarball"
         IN  [type |-> AttrStr(s_git_tarball),
              rev |-> AttrStr(f.trace[k].url.target \o f.trace[k].url.token)]

\* github.cc:171 and 178: the key of the record that is added.
addKey(f, mutable) ==
    IF mutable THEN mutableAttrs(This(f)) ELSE immutableAttrs(Get(f.rev))

\* Variant: every record is added as immutable.
addFlagAlwaysImmutable(mutable) == TRUE

\* github.cc:173 and 180: the immutable argument of the add.
addFlag(mutable) == ~mutable

addEvent(f, mutable, ok) ==
    AddEvent(addKey(f, mutable),
             infoAttrs(Get(f.rev), Get(Get(f.tree).info.lastModified)),
             Get(f.tree).storePath, addFlag(mutable), ok)

stepAdd(f, mutable, ok) ==
    IF ~ok THEN Failed(f, "CacheError", addEvent(f, mutable, ok))
    ELSE [f EXCEPT !.pc = IF mutable THEN "addImmutable" ELSE "wrapper",
                   !.trace = Append(@, addEvent(f, mutable, ok))]

cacheAfterAdd(c, f, mutable) ==
    LET ev == addEvent(f, mutable, TRUE) IN
    cacheAdd(c, ev.key, ev.info, ev.storePath, ev.immutable)

\* Input::fetchTree (fetchers.cc:54-72), after fetchTreeInternal returned.
stepWrapper(f) ==
    LET tree0 == Get(f.tree)
        input == Get(f.input)
        tree1 == IF ~IsSome(tree0.actualPath)
                 THEN [tree0 EXCEPT !.actualPath = Some(toRealPath(tree0.storePath))]
                 ELSE tree0
        tree == IF ~IsSome(tree1.info.narHash)
                THEN [tree1 EXCEPT !.info.narHash = Some(NarHashOf(tree1.storePath))]
                ELSE tree1
        g == [f EXCEPT !.pc = "done", !.tree = Some(tree)]
    IN  IF IsSome(input.narHash) /\ input.narHash # tree.info.narHash
        THEN [g EXCEPT !.outcome = "assert"]
        ELSE IF IsSome(This(f).narHash) /\ This(f).narHash # input.narHash
        THEN [g EXCEPT !.outcome = "HashMismatch"]
        ELSE [g EXCEPT !.outcome = "ok"]

----------------------------------------------------------------------------
(* The fetch pipeline as a state machine.                                  *)

Owners == {s_alice, s_bob}
Refs == {s_master}

\* The number of fetchTree calls in a run.
MaxCalls == 2

NarHashA == NarHashOf(TarballStorePath(s_alice, s_proj, RevA))

Optional(S) == {None} \cup {Some(v) : v \in S}

\* The inputs fetchTree is called on: alice/proj in every form, and
\* bob/proj (a fork) by exact revision.
FetchInputs ==
    {GitHubInput(s_alice, s_proj, ref, rev, narHash) :
        ref \in Optional(Refs), rev \in Optional(Revs),
        narHash \in Optional({NarHashA})}
    \cup {GitHubInput(s_bob, s_proj, None, Some(RevA), None)}

\* What is kept of a call once the next one starts.
Summary(f, st) ==
    [this |-> This(f), outcome |-> f.outcome, input |-> f.input,
     storePath |-> IF IsSome(f.tree) THEN Some(Get(f.tree).storePath) ELSE None,
     resolved |-> \E k \in 1..Len(f.trace) :
                     f.trace[k].op = "download" /\ f.trace[k].url.api = "commits",
     since |-> f.since,
     stillValid |-> IsSome(f.tree) /\ Get(f.tree).storePath \in st,
     addedMutable |-> \E k \in 1..Len(f.trace) :
                         f.trace[k].op = "add" /\ f.trace[k].ok /\ ~f.trace[k].immutable,
     addedImmutable |-> \E k \in 1..Len(f.trace) :
                           f.trace[k].op = "add" /\ f.trace[k].ok /\ f.trace[k].immutable]

Init ==
    /\ inputSchemes = <<"github">>      \* github.cc:263, at startup
    /\ registered = <<"github">>
    /\ cur = None
    /\ res = [op |-> "", arg |-> None, mid |-> None, schemes |-> <<>>, err |-> "",
              input |-> None, consulted |-> <<>>]
    /\ cache = {}
    /\ store = {}
    /\ call = IdleCall
    /\ last = None
    /\ calls = 0
    /\ other = IdleCall
    /\ head = None

registryVars == <<inputSchemes, registered, cur, res>>

concVars == <<other, head>>

\* A caller calls fetchTree on an input, in a run of at most n calls.
FetchTreeWithin(n) ==
    /\ call.pc \in {"idle", "done"}
    /\ calls < n
    /\ calls' = calls + 1
    /\ \E this \in FetchInputs : call' = startCall(this, cache)
    /\ last' = IF call.outcome = "ok" THEN Some(Summary(call, store)) ELSE None
    /\ UNCHANGED <<registryVars, concVars, cache, store>>

LookupMutable ==
    /\ call.pc = "lookupMutable"
    /\ call' = stepLookupMutable(call, cache, store)
    /\ UNCHANGED <<registryVars, concVars, cache, store, last, calls>>

\* The HEAD request: it fails, or answers with the branch's revision.
Resolve ==
    /\ call.pc = "resolve"
    /\ \/ call' = stepResolve(call, FALSE, <<>>)
       \/ \E rev \in Revs : call' = stepResolve(call, TRUE, gitRev(rev))
    /\ UNCHANGED <<registryVars, concVars, cache, store, last, calls>>

LookupImmutable ==
    /\ call.pc = "lookupImmutable"
    /\ call' = stepLookupImmutable(call, cache, store)
    /\ UNCHANGED <<registryVars, concVars, cache, store, last, calls>>

Download ==
    /\ call.pc = "download"
    /\ \E accessToken \in AccessTokens :
         \/ /\ call' = stepDownload(call, FALSE, accessToken)
            /\ UNCHANGED store
         \/ /\ call' = stepDownload(call, TRUE, accessToken)
            /\ store' = store \cup {Get(call'.tree).storePath}
    /\ UNCHANGED <<registryVars, concVars, cache, last, calls>>

AddMutable ==
    /\ call.pc = "addMutable"
    /\ \/ /\ call' = stepAdd(call, TRUE, TRUE)
          /\ cache' = cacheAfterAdd(cache, call, TRUE)
       \/ /\ call' = stepAdd(call, TRUE, FALSE)
          /\ UNCHANGED cache
    /\ UNCHANGED <<registryVars, concVars, store, last, calls>>

AddImmutable ==
    /\ call.pc = "addImmutable"
    /\ \/ /\ call' = stepAdd(call, FALSE, TRUE)
          /\ cache' = cacheAfterAdd(cache, call, FALSE)
       \/ /\ call' = stepAdd(call, FALSE, FALSE)
          /\ UNCHANGED cache
    /\ UNCHANGED <<registryVars, concVars, store, last, calls>>

Wrapper ==
    /\ call.pc = "wrapper"
    /\ call' = stepWrapper(call)
    /\ UNCHANGED <<registryVars, concVars, cache, store, last, calls>>

\* Time passes between two calls: every record ages.
Tick ==
    /\ call.pc = "done"
    /\ \/ \E e \in cache : e.age <= tarballTtl
       \/ call.since <= tarballTtl
    /\ cache' = {[e EXCEPT !.age = IF @ <= tarballTtl THEN @ + 1 ELSE @] : e \in cache}
    /\ call' = [call EXCEPT !.since = IF @ <= tarballTtl THEN @ + 1 ELSE @]
    /\ UNCHANGED <<registryVars, concVars, store, last, calls>>

\* The store's garbage collector runs between two calls: fetched trees have
\* no roots, so it deletes them all.
CollectGarbage ==
    /\ call.pc = "done"
    /\ store # {}
    /\ store' = {}
    /\ UNCHANGED <<registryVars, concVars, cache, call, last, calls>>

FetchTree == FetchTreeWithin(MaxCalls)

\* The steps of a call, and what happens between calls.
Step ==
    \/ LookupMutable
    \/ Resolve
    \/ LookupImmutable
    \/ Download
    \/ AddMutable
    \/ AddImmutable
    \/ Wrapper
    \/ Tick
    \/ CollectGarbage

Next == FetchTree \/ Step

Spec == Init /\ [][Next]_vars

\* Runs of one more call: a call that fills the cache, then two calls of
\* the same input.
FetchTreeOnceMore == FetchTreeWithin(MaxCalls + 1)

NextLong == FetchTreeOnceMore \/ Step

SpecLong == Init /\ [][NextLong]_vars

----------------------------------------------------------------------------
(* Two fetchTree calls running concurrently (two threads, or two           *)
(* processes sharing the cache and the store).  A call can be suspended    *)
(* at each call to the cache or the downloader; the remote branch keeps    *)
(* pointing to the same revision while the two calls run.                  *)

Procs == {1, 2}

Frame(p) == IF p = 1 THEN call ELSE other

\* Process p's frame becomes g.
Put(p, g) ==
    IF p = 1 THEN call' = g /\ other' = other
    ELSE other' = g /\ call' = call

\* The inputs of the two calls: the same repository and branch, no rev.
ConcInputs ==
    {GitHubInput(s_alice, s_proj, ref, None, None) : ref \in Optional(Refs)}

\* Two callers call fetchTree at the same time.
ConcFetchTree ==
    /\ calls = 0
    /\ \E i \in ConcInputs, j \in ConcInputs, h \in Revs :
         /\ call' = startCall(i, cache)
         /\ other' = startCall(j, cache)
         /\ head' = Some(h)
    /\ calls' = 2
    /\ UNCHANGED <<registryVars, cache, store, last>>

ConcLookupMutable ==
    /\ \E p \in Procs :
         /\ Frame(p).pc = "lookupMutable"
         /\ Put(p, stepLookupMutable(Frame(p), cache, store))
    /\ UNCHANGED <<registryVars, cache, store, last, calls, head>>

\* The HEAD request fails, or answers with the head of the branch.
ConcResolve ==
    /\ \E p \in Procs :
         /\ Frame(p).pc = "resolve"
         /\ \/ Put(p, stepResolve(Frame(p), FALSE, <<>>))
            \/ Put(p, stepResolve(Frame(p), TRUE, gitRev(Get(head))))
    /\ UNCHANGED <<registryVars, cache, store, last, calls, head>>

ConcLookupImmutable ==
    /\ \E p \in Procs :
         /\ Frame(p).pc = "lookupImmutable"
         /\ Put(p, stepLookupImmutable(Frame(p), cache, store))
    /\ UNCHANGED <<registryVars, cache, store, last, calls, head>>

ConcDownload ==
    /\ \E p \in Procs, accessToken \in AccessTokens :
         /\ Frame(p).pc = "download"
         /\ \/ /\ Put(p, stepDownload(Frame(p), FALSE, accessToken))
               /\ UNCHANGED store
            \/ /\ Put(p, stepDownload(Frame(p), TRUE, accessToken))
               /\ store' = store \cup
                     {Get(stepDownload(Frame(p), TRUE, accessToken).tree).storePath}
    /\ UNCHANGED <<registryVars, cache, last, calls, head>>

ConcAddMutable ==
    /\ \E p \in Procs :
         /\ Frame(p).pc = "addMutable"
         /\ \/ /\ Put(p, stepAdd(Frame(p), TRUE, TRUE))
               /\ cache' = cacheAfterAdd(cache, Frame(p), TRUE)
            \/ /\ Put(p, stepAdd(Frame(p), TRUE, FALSE))
               /\ UNCHANGED cache
    /\ UNCHANGED <<registryVars, store, last, calls, head>>

ConcAddImmutable ==
    /\ \E p \in Procs :
         /\ Frame(p).pc = "addImmutable"
         /\ \/ /\ Put(p, stepAdd(Frame(p), FALSE, TRUE))
               /\ cache' = cacheAfterAdd(cache, Frame(p), FALSE)
            \/ /\ Put(p, stepAdd(Frame(p), FALSE, FALSE))
               /\ UNCHANGED cache
    /\ UNCHANGED <<registryVars, store, last, calls, head>>

ConcWrapper ==
    /\ \E p \in Procs :
         /\ Frame(p).pc = "wrapper"
         /\ Put(p, stepWrapper(Frame(p)))
    /\ UNCHANGED <<registryVars, cache, store, last, calls, head>>

NextConcurrent ==
    \/ ConcFetchTree
    \/ ConcLookupMutable
    \/ ConcResolve
    \/ ConcLookupImmutable
    \/ ConcDownload
    \/ ConcAddMutable
    \/ ConcAddImmutable
    \/ ConcWrapper

SpecConcurrent == Init /\ [][NextConcurrent]_vars

----------------------------------------------------------------------------
(* The registry and the conversions as a state machine: a caller registers *)
(* schemes, builds inputs from URLs and attributes, overrides them and     *)
(* converts them back.                                                     *)

\* The number of registered schemes.
MaxSchemes == 3

upperRevA == Rep("A", RevLen)

GitHubPaths ==
    { s_alice \o <<"/">> \o s_proj,
      s_alice \o <<"/">> \o s_proj \o <<"/">> \o s_master,
      s_alice \o <<"/">> \o s_proj \o <<"/">> \o gitRev(RevA),
      s_alice \o <<"/">> \o s_proj \o <<"/">> \o upperRevA,
      s_alice \o <<"/">> \o s_proj \o <<"/">> \o <<"m","@">>,
      s_alice \o <<"/">> \o s_proj \o <<"/">> \o s_dev \o <<"/">> \o s_dir,
      s_alice }

UrlQueries ==
    { <<>>,
      <<"?">> \o s_ref \o <<"=">> \o s_dev,
      <<"?">> \o s_rev \o <<"=">> \o gitRev(RevB),
      <<"?">> \o s_ref \o <<"=">> \o s_dev \o <<"&">> \o s_rev \o <<"=">> \o gitRev(RevB),
      <<"?">> \o s_ref \o <<"=">> \o gitRev(RevB),
      <<"?">> \o s_ref \o <<"=">> \o <<"m","@">>,
      <<"?">> \o s_rev \o <<"=">> \o s_dev,
      <<"?">> \o s_ref \o <<"=">> \o s_dev \o <<"&">> \o s_ref \o <<"=">> \o s_master,
      <<"?">> \o s_dir \o <<"=">> \o s_dev }

\* The URL strings inputFromURL is called on: github URLs, URLs of other
\* schemes, and a string that is no URL.
Urls ==
    {s_github \o <<":">> \o p \o q : p \in GitHubPaths, q \in UrlQueries}
    \cup {s \o <<":">> \o s_alice \o <<"/">> \o s_proj : s \in {s_git, s_tarball, s_file}}
    \cup {s_alice \o <<"/">> \o s_proj}

\* Attrs with the attribute name bound to each value of vs, or left out.
WithAttr(as, name, vs) ==
    as \cup {emplace(a, name, v) : a \in as, v \in vs}

\* The attribute sets inputFromAttrs is called on: attributes of type
\* github, and attributes of another type or of none.
AttrSets ==
    LET a1 == {[type |-> AttrStr(s_github)]}
        a2 == WithAttr(a1, "owner", {AttrStr(s_alice)})
        a3 == {emplace(a, "repo", AttrStr(s_proj)) : a \in a2}
        a4 == WithAttr(a3, "ref", {AttrStr(s_master), AttrStr(gitRev(RevB))})
        a5 == WithAttr(a4, "rev", {AttrStr(gitRev(RevA)), AttrStr(s_dev), AttrInt(1)})
        a6 == WithAttr(a5, "narHash", {AttrStr(to_string_SRI(NarHashA))})
    IN  WithAttr(a6, "dir", {AttrStr(s_dir)})
        \cup {[type |-> AttrStr(s)] : s \in {s_git, s_tarball, s_file}}
        \cup {[type |-> AttrStr(s_git), narHash |-> AttrStr(to_string_SRI(NarHashA))]}
        \cup {[owner |-> AttrStr(s_alice), repo |-> AttrStr(s_proj)]}

\* The inputs a caller converts to attributes and back: a GitHub input with
\* any fields (narHash is a public member of Input).
GitHubInputs ==
    {GitHubInput(s_alice, s_proj, ref, rev, narHash) :
        ref \in Optional(Refs \cup {gitRev(RevB), s_dev \o <<"/">> \o s_dir}),
        rev \in Optional(Revs),
        narHash \in Optional({NarHashA})}

\* The record of a call: its argument, an intermediate value, the registry
\* it ran on and its answer.
Result(op, arg, mid, schemes, r) ==
    [op |-> op, arg |-> arg, mid |-> mid, schemes |-> schemes, err |-> r.err,
     input |-> r.input, consulted |-> r.consulted]

fetchVars == <<cache, store, call, last, calls, concVars>>

RegisterInputScheme ==
    /\ Len(inputSchemes) < MaxSchemes
    /\ \E scheme \in OtherSchemes :
         /\ inputSchemes' = registerInputScheme(inputSchemes, scheme)
         /\ registered' = Append(registered, scheme)
    /\ UNCHANGED <<cur, res, fetchVars>>

InputFromURL ==
    /\ \E s \in Urls :
         LET r == inputFromURL(inputSchemes, s) IN
         /\ res' = Result("inputFromURL", Some(s), None, inputSchemes, r)
         /\ cur' = r.input
    /\ UNCHANGED <<inputSchemes, registered, fetchVars>>

InputFromAttrs ==
    /\ \E attrs \in AttrSets :
         LET r == inputFromAttrs(inputSchemes, attrs) IN
         /\ res' = Result("inputFromAttrs", Some(attrs), None, inputSchemes, r)
         /\ cur' = r.input
    /\ UNCHANGED <<inputSchemes, registered, fetchVars>>

\* GitHubInput::applyOverrides on the input the caller holds.
ApplyOverrides ==
    /\ IsSome(cur)
    /\ Get(cur).kind = "github"
    /\ \E ref \in Optional({s_dev}), rev \in Optional({RevB}) :
         LET i == applyOverrides(Get(cur), ref, rev) IN
         /\ res' = Result("applyOverrides", cur, None, inputSchemes,
                          [err |-> "", input |-> Some(i), consulted |-> <<>>])
         /\ cur' = Some(i)
    /\ UNCHANGED <<inputSchemes, registered, fetchVars>>

\* inputFromAttrs(i.toAttrs())
AttrsRoundTrip ==
    /\ \E i \in GitHubInputs :
         LET attrs == toAttrs(i)
             r == inputFromAttrs(inputSchemes, attrs)
         IN  res' = Result("attrsRoundTrip", Some(i), Some(attrs), inputSchemes, r)
    /\ cur' = None
    /\ UNCHANGED <<inputSchemes, registered, fetchVars>>

\* inputFromURL(i.to_string()) on the input the caller holds.
UrlRoundTrip ==
    /\ IsSome(cur)
    /\ Get(cur).kind = "github"
    /\ LET s == to_string(Get(cur))
           r == IF s.err # ""
                THEN [err |-> s.err, input |-> None, consulted |-> <<>>]
                ELSE inputFromURL(inputSchemes, s.str)
       IN  res' = Result("urlRoundTrip", cur, Some(s.str), inputSchemes, r)
    /\ UNCHANGED <<inputSchemes, registered, cur, fetchVars>>

NextRegistry ==
    \/ RegisterInputScheme
    \/ InputFromURL
    \/ InputFromAttrs
    \/ ApplyOverrides
    \/ AttrsRoundTrip
    \/ UrlRoundTrip

SpecRegistry == Init /\ [][NextRegistry]_vars

----------------------------------------------------------------------------
(* Properties of the fetch pipeline (checked under Spec).                  *)

\* fetchTree returned a tree and an input to its caller.
Returned == call.pc = "done" /\ call.outcome = "ok"

\* fetchTreeInternal returned (the wrapper runs or ran).
InternalReturned == call.pc = "wrapper" \/ (call.pc = "done" /\ IsSome(call.input)
                                            /\ call.outcome \in {"ok", "assert", "HashMismatch"})

IsHead(e) == e.op = "download" /\ e.url.api = "commits"
IsTarball(e) == e.op = "download" /\ e.url.api = "tarball"
IsLookup(e, key, hit) == e.op = "lookup" /\ e.key = key /\ e.hit = hit
IsAdd(e, key, immutable) ==
    e.op = "add" /\ e.key = key /\ e.immutable = immutable /\ e.ok

NoDownload(f) ==
    /\ f.pc \notin {"resolve", "download"}
    /\ \A k \in 1..Len(f.trace) : f.trace[k].op # "download"

NoHead(f) ==
    /\ f.pc # "resolve"
    /\ \A k \in 1..Len(f.trace) : ~IsHead(f.trace[k])

\* C1: whenever fetchTree returns, on any path, the returned input has its
\* rev set (it is immutable) and its ref cleared, and has the owner and
\* repo of the input fetchTree was called on.
C1_CanonicalInput ==
    Returned =>
        /\ isImmutable(Get(call.input))
        /\ ~IsSome(Get(call.input).ref)
        /\ Get(call.input).owner = This(call).owner
        /\ Get(call.input).repo = This(call).repo

\* C1 witness: a call on an input with a ref and no rev returned from a
\* mutable-key cache hit.
C1_Witness ==
    /\ Returned
    /\ IsSome(This(call).ref)
    /\ ~IsSome(This(call).rev)
    /\ Len(call.trace) = 1
    /\ IsLookup(call.trace[1], mutableAttrs(This(call)), TRUE)

\* The call before this one was a successful fetchTree of the same input.
SameAsLast == IsSome(last) /\ call.pc # "idle" /\ Get(last).this = This(call)

\* C2 (as claimed): once a fetchTree of an input without rev has resolved
\* the branch and succeeded, the next fetchTree of the same input, started
\* within tarballTtl and with the fetched store path still valid, issues no
\* HEAD request and returns the same rev.
C2_MutableRefPinned ==
    (/\ SameAsLast
     /\ ~IsSome(This(call).rev)
     /\ Get(last).resolved
     /\ Get(last).since <= tarballTtl
     /\ Get(last).stillValid)
    => /\ NoHead(call)
       /\ Returned => Get(call.input).rev = Get(Get(last).input).rev

\* C3: when a successful fetchTree of an input with a rev is followed by a
\* fetchTree of the same input, the store path returned by the first being
\* valid in between, the second issues no downloader request and, when it
\* returns, returns the same store path.
C3_CacheConsistency ==
    (/\ SameAsLast
     /\ IsSome(This(call).rev)
     /\ Get(last).stillValid)
    => /\ NoDownload(call)
       /\ Returned => Get(call.tree).storePath = Get(Get(last).storePath)

\* C3 witness: the second of two such calls returned, time having passed
\* in between.
C3_Witness ==
    /\ SameAsLast
    /\ IsSome(This(call).rev)
    /\ Get(last).stillValid
    /\ Get(last).since > tarballTtl
    /\ Returned

\* The wrapper compared the caller's narHash with a different narHash of
\* the fetched tree.
HashDisagrees ==
    /\ call.pc = "done"
    /\ IsSome(This(call).narHash)
    /\ IsSome(call.tree)
    /\ IsSome(Get(call.tree).info.narHash)
    /\ This(call).narHash # Get(call.tree).info.narHash

\* C4 (as claimed): when the caller's narHash differs from the narHash of
\* the fetched tree, fetchTree ends with the HashMismatch error and in no
\* other way.
C4_HashMismatchRaised == HashDisagrees => call.outcome = "HashMismatch"

\* C5 (as claimed): when the caller's narHash differs from the narHash of
\* the fetched tree and fetchTree has failed, the cache holds no record
\* under the immutable key that it did not hold when the call started.
C5_NoRecordOnMismatch ==
    (HashDisagrees /\ call.outcome # "ok") =>
        \A e \in cache :
            e.inAttrs = immutableAttrs(Get(call.rev)) =>
                \E b \in call.before : b.inAttrs = e.inAttrs

\* The cache held no record for the keys of this call when it started.
FreshCache ==
    /\ ~IsSome(This(call).rev)
    /\ IsSome(call.rev)
    /\ \A b \in call.before :
          /\ b.inAttrs # mutableAttrs(This(call))
          /\ b.inAttrs # immutableAttrs(Get(call.rev))

\* C9: a fetchTree of an input without rev that starts with no record
\* under its mutable key nor under the immutable key of the revision it
\* resolves, and returns, has performed exactly: the mutable-key lookup (a
\* miss), the HEAD request, the immutable-key lookup (a miss), the tarball
\* download, the insert under the mutable key with immutable = false, the
\* insert under the immutable key with immutable = true, in this order; the
\* returned input has the resolved rev and no ref.
C9_FreshFetchByBranch ==
    (Returned /\ FreshCache) =>
        LET tr == call.trace
            rev == Get(call.input).rev
        IN  /\ Len(tr) = 6
            /\ IsLookup(tr[1], mutableAttrs(This(call)), FALSE)
            /\ IsHead(tr[2]) /\ tr[2].ok
            /\ rev = Hash(Get(tr[2].result), "sha1")
            /\ IsLookup(tr[3], immutableAttrs(Get(rev)), FALSE)
            /\ IsTarball(tr[4]) /\ tr[4].ok
            /\ IsAdd(tr[5], mutableAttrs(This(call)), FALSE)
            /\ IsAdd(tr[6], immutableAttrs(Get(rev)), TRUE)
            /\ ~IsSome(Get(call.input).ref)

\* C9 witness: such a call returned, on an input with neither ref nor rev.
C9_Witness ==
    /\ Returned
    /\ FreshCache
    /\ ~IsSome(This(call).ref)
    /\ call.before = {}

\* C10: a fetchTree of an input with a rev never issues a HEAD request and
\* never looks up or adds under the mutable key; it first looks up the
\* immutable key; after a hit it does nothing more, and after a miss it
\* performs one tarball download and then one insert, under the immutable
\* key with immutable = true, and nothing else.
C10_FetchByRev ==
    (call.pc # "idle" /\ IsSome(This(call).rev)) =>
        LET tr == call.trace
            key == immutableAttrs(Get(This(call).rev))
        IN  /\ call.pc \notin {"lookupMutable", "resolve", "addMutable"}
            /\ \A k \in 1..Len(tr) :
                  /\ ~IsHead(tr[k])
                  /\ tr[k].op \in {"lookup", "add"} => tr[k].key = key
            /\ Len(tr) <= 3
            /\ Len(tr) >= 1 => tr[1].op = "lookup"
            /\ Len(tr) >= 2 => ~tr[1].hit /\ IsTarball(tr[2])
            /\ Len(tr) >= 3 => tr[2].ok /\ tr[3].op = "add" /\ tr[3].immutable
            /\ InternalReturned =>
                  \/ Len(tr) = 1 /\ tr[1].hit
                  \/ Len(tr) = 3 /\ tr[3].ok

\* C10 witness: a call on an input with a rev returned after a miss.
C10_Witness ==
    /\ Returned
    /\ IsSome(This(call).rev)
    /\ Len(call.trace) = 3

----------------------------------------------------------------------------
(* Properties of the registry and the conversions (checked under           *)
(* SpecRegistry).                                                          *)

\* C6 (as claimed): for every GitHub input i, inputFromAttrs(i.toAttrs())
\* succeeds and returns an input that is equal to i and has i's narHash.
C6_AttrsRoundTrip ==
    res.op = "attrsRoundTrip" =>
        /\ res.err = ""
        /\ IsSome(res.input)
        /\ InputEq(Get(res.input), Get(res.arg))
        /\ Get(res.input).narHash = Get(res.arg).narHash

\* C7 (as claimed): for every GitHub input i that inputFromURL,
\* inputFromAttrs or applyOverrides produced, to_string(i) is defined and
\* inputFromURL(to_string(i)) succeeds and returns an input equal to i.
C7_UrlRoundTrip ==
    res.op = "urlRoundTrip" =>
        /\ res.err = ""
        /\ IsSome(res.input)
        /\ InputEq(Get(res.input), Get(res.arg))

\* What the scheme at position k of the registry of the last call answers
\* to the argument of that call.
AnswerOf(k) ==
    IF res.op = "inputFromURL"
    THEN SchemeInputFromURL(res.schemes[k], parseURL(Get(res.arg)))
    ELSE SchemeInputFromAttrs(res.schemes[k], Get(res.arg))

\* The positions of the schemes that do not answer nullptr.
Answering == {k \in 1..Len(res.schemes) : AnswerOf(k).status # "none"}

\* The last call was a dispatch through the registry (of a string that
\* parses as a URL).
Dispatched ==
    \/ res.op = "inputFromURL" /\ parseURL(Get(res.arg)).ok
    \/ res.op = "inputFromAttrs"

\* C8: the registry lists the schemes in the order they were registered
\* and only grows at its end; inputFromURL and inputFromAttrs ask the
\* schemes in that order up to the first that does not answer nullptr, and
\* return its input (with the narHash attribute attached) or raise its
\* error; when all answer nullptr they raise the unsupported-input error.
C8_RegistryDispatch ==
    /\ inputSchemes = registered
    /\ res.op # "" => SubSeq(inputSchemes, 1, Len(res.schemes)) = res.schemes
    /\ Dispatched =>
        IF Answering = {}
        THEN res.err = "UnsupportedInput" /\ res.consulted = res.schemes
        ELSE LET k == CHOOSE k \in Answering : \A j \in Answering : k <= j
                 a == AnswerOf(k)
             IN  /\ res.consulted = SubSeq(res.schemes, 1, k)
                 /\ a.status # "ok" => res.err = a.status /\ res.input = None
                 /\ (a.status = "ok" /\ res.op = "inputFromURL") =>
                       res.err = "" /\ res.input = a.input
                 /\ (a.status = "ok" /\ res.op = "inputFromAttrs") =>
                       /\ res.err \in {"", "BadHash", "WrongAttrType"}
                       /\ "narHash" \notin DOMAIN Get(res.arg) =>
                             res.err = "" /\ res.input = a.input
                       /\ res.err = "" =>
                             [Get(res.input) EXCEPT !.narHash = None] = Get(a.input)

\* C8 witness: with github, B and A registered in this order, a git URL
\* (which A and B both know) was answered by B, and A was not asked.
C8_Witness ==
    /\ res.op = "inputFromURL"
    /\ res.schemes = <<"github", "B", "A">>
    /\ res.err = ""
    /\ res.consulted = <<"github", "B">>
    /\ Get(res.input).by = "B"
    /\ SchemeInputFromURL("A", parseURL(Get(res.arg))).status = "ok"

----------------------------------------------------------------------------
(* Further properties of the fetch pipeline (checked under Spec).          *)

\* The records of a cache, without their age.
Records(c) ==
    {[inAttrs |-> e.inAttrs, infoAttrs |-> e.infoAttrs, storePath |-> e.storePath,
      immutable |-> e.immutable] : e \in c}

\* A downloader request of the call failed.
DownloadFailed(f) ==
    \E k \in 1..Len(f.trace) : f.trace[k].op = "download" /\ ~f.trace[k].ok

\* C11: when the HEAD request or the tarball download of a fetchTree
\* fails, the call ends there with the downloader's error, without a tree,
\* and the cache holds the records it held when the call started.
C11_DownloadFailureKeepsCache ==
    DownloadFailed(call) =>
        /\ call.pc = "done"
        /\ call.outcome = "DownloadFailure"
        /\ ~IsSome(call.tree)
        /\ ~call.trace[Len(call.trace)].ok
        /\ Records(cache) = Records(call.before)

\* C11 witness: on a cache that holds records, the HEAD request succeeded
\* and the tarball download failed.
C11_Witness ==
    /\ DownloadFailed(call)
    /\ call.before # {}
    /\ Len(call.trace) = 4
    /\ IsHead(call.trace[2]) /\ call.trace[2].ok
    /\ IsTarball(call.trace[4])

\* The call has just looked up its mutable key (cache and store are as the
\* lookup saw them).
AfterMutableLookup ==
    /\ call.pc \in {"resolve", "wrapper"}
    /\ Len(call.trace) = 1
    /\ call.trace[1].op = "lookup"
    /\ call.trace[1].key = mutableAttrs(This(call))

\* The call has just looked up the immutable key of its revision.
AfterImmutableLookup ==
    /\ call.pc \in {"download", "wrapper"}
    /\ IsSome(call.rev)
    /\ Len(call.trace) \in {1, 3}
    /\ call.trace[Len(call.trace)].op = "lookup"
    /\ call.trace[Len(call.trace)].key = immutableAttrs(Get(call.rev))

\* C12: records under a mutable key are inserted with immutable = false
\* and records under an immutable key with immutable = true; the lookup of
\* the mutable key hits exactly when a record of the key with a valid store
\* path is at most tarballTtl old, and after a miss (a stale record
\* included) the call goes on to a HEAD request; the lookup of the
\* immutable key hits exactly when a record of the key with a valid store
\* path exists, whatever its age.
C12_MutableRecordExpiry ==
    /\ \A e \in cache : e.immutable = (e.inAttrs.type = AttrStr(s_git_tarball))
    /\ AfterMutableLookup =>
          /\ call.trace[1].hit =
                (\E e \in cache : /\ e.inAttrs = mutableAttrs(This(call))
                                  /\ e.storePath \in store
                                  /\ e.age <= tarballTtl)
          /\ ~call.trace[1].hit => call.pc = "resolve"
    /\ (Len(call.trace) >= 2 /\ IsLookup(call.trace[1], mutableAttrs(This(call)), FALSE))
          => IsHead(call.trace[2])
    /\ AfterImmutableLookup =>
          call.trace[Len(call.trace)].hit =
             (\E e \in cache : /\ e.inAttrs = immutableAttrs(Get(call.rev))
                               /\ e.storePath \in store)

\* C12 witness: a record of the mutable key, older than tarballTtl and with
\* a valid store path, was not used, and the HEAD request was issued.
C12_Witness ==
    /\ call.pc = "lookupImmutable"
    /\ Len(call.trace) = 2
    /\ IsLookup(call.trace[1], mutableAttrs(This(call)), FALSE)
    /\ IsHead(call.trace[2])
    /\ \E e \in cache : /\ e.inAttrs = mutableAttrs(This(call))
                        /\ e.storePath \in store
                        /\ ~e.immutable
                        /\ e.age > tarballTtl

\* t occurs in s.
Contains(s, t) ==
    \E k \in 0..(Len(s) - Len(t)) : SubSeq(s, k + 1, k + Len(t)) = t

\* A string attribute of attrs contains an access token.
HasToken(attrs) ==
    \E n \in DOMAIN attrs, tok \in AccessTokens \ {<<>>} :
        /\ DOMAIN attrs[n] = {"str"}
        /\ Contains(attrs[n].str, tok)

\* C14: whatever githubAccessToken is, the keys the call looks up and adds
\* under are the mutable key (type, owner, repo, ref) and the immutable key
\* (type, rev), and the infoAttrs it adds are (rev, lastModified), none of
\* them depending on the token; no key and no infoAttrs in the cache
\* contains the token; the HEAD request's URL does not carry it.
C14_NoTokenInCache ==
    /\ \A e \in cache : ~HasToken(e.inAttrs) /\ ~HasToken(e.infoAttrs)
    /\ \A k \in 1..Len(call.trace) :
          LET e == call.trace[k] IN
          /\ e.op \in {"lookup", "add"} =>
                \/ e.key = [type |-> AttrStr(s_github),
                            owner |-> AttrStr(This(call).owner),
                            repo |-> AttrStr(This(call).repo),
                            ref |-> AttrStr(effectiveRef(This(call)))]
                \/ /\ IsSome(call.rev)
                   /\ e.key = [type |-> AttrStr(s_git_tarball),
                               rev |-> AttrStr(to_string_Base16(Get(call.rev)))]
          /\ e.op = "add" =>
                e.info = [rev |-> AttrStr(to_string_Base16(Get(call.rev))),
                          lastModified |-> AttrInt(LastModifiedOf(Get(call.rev)))]
          /\ IsHead(e) => e.url.token = <<>>

\* C14 witness: a call that downloaded the tarball with a token in the URL
\* inserted both records and returned.
C14_Witness ==
    /\ Returned
    /\ Len(call.trace) = 6
    /\ IsTarball(call.trace[4])
    /\ call.trace[4].url.token # <<>>
    /\ cache # {}

\* An add to the cache failed in the call.
AddFailed(f) == \E k \in 1..Len(f.trace) : f.trace[k].op = "add" /\ ~f.trace[k].ok

\* C16 (as claimed): when an add to the cache fails in a fetchTree whose
\* tarball download succeeded, the caller still receives the tree and the
\* input of the fetch.
C16_AddFailureKeepsResult ==
    (call.pc = "done" /\ AddFailed(call)) => Returned

\* C17: every HEAD request is issued with ttl = tarballTtl and every
\* tarball request with ttl = 1000000000, which are different.
C17_DownloaderTtls ==
    /\ tarballTtl # InfiniteTtl
    /\ \A k \in 1..Len(call.trace) :
          /\ IsHead(call.trace[k]) => call.trace[k].ttl = tarballTtl
          /\ IsTarball(call.trace[k]) => call.trace[k].ttl = InfiniteTtl

\* C17 witness: a call issued a HEAD request and then a tarball request.
C17_Witness ==
    /\ Len(call.trace) >= 4
    /\ IsHead(call.trace[2])
    /\ IsTarball(call.trace[4])

\* The call before this one was a successful fetchTree of the same
\* repository, one of the two inputs having no ref and the other the ref
\* master, both without rev.
OtherFormOfLast ==
    /\ IsSome(last)
    /\ call.pc # "idle"
    /\ Get(last).this.owner = This(call).owner
    /\ Get(last).this.repo = This(call).repo
    /\ ~IsSome(Get(last).this.rev)
    /\ ~IsSome(This(call).rev)
    /\ {Get(last).this.ref, This(call).ref} = {None, Some(s_master)}

\* C19: after a successful fresh fetch (one that inserted the mutable-key
\* record) of an input without ref or of the input with ref master, a
\* fetch of the other one, started within tarballTtl with the store path
\* still valid, looks up the same mutable key, hits, issues no downloader
\* request and returns the same rev and store path.
C19_DefaultRefSameKey ==
    (/\ OtherFormOfLast
     /\ Get(last).addedMutable
     /\ Get(last).since <= tarballTtl
     /\ Get(last).stillValid)
    => /\ mutableAttrs(This(call)) = mutableAttrs(Get(last).this)
       /\ call.pc \in {"lookupMutable", "wrapper", "done"}
       /\ NoDownload(call)
       /\ call.pc # "lookupMutable" =>
             /\ Len(call.trace) = 1
             /\ IsLookup(call.trace[1], mutableAttrs(Get(last).this), TRUE)
             /\ Get(call.input).rev = Get(Get(last).input).rev
             /\ Get(call.tree).storePath = Get(Get(last).storePath)

\* C19 witness: the fetch of the input with ref master returned after the
\* fresh fetch of the input without ref.
C19_Witness ==
    /\ OtherFormOfLast
    /\ Get(last).addedMutable
    /\ Get(last).since <= tarballTtl
    /\ Get(last).stillValid
    /\ ~IsSome(Get(last).this.ref)
    /\ Returned

\* The call before this one was a successful fetchTree that inserted the
\* record of the revision this call is given, for another repository.
SameRevElsewhere ==
    /\ IsSome(last)
    /\ call.pc # "idle"
    /\ Get(last).addedImmutable
    /\ Get(last).stillValid
    /\ IsSome(This(call).rev)
    /\ This(call).rev = Get(Get(last).input).rev
    /\ <<This(call).owner, This(call).repo>> # <<Get(last).this.owner, Get(last).this.repo>>

\* C20: the immutable key is made of the type tag and the rev only; after
\* a successful fetch that inserted the record of rev R, a fetchTree of an
\* input of another owner or repo with the same rev R hits under the
\* immutable key, issues no downloader request and returns the store path
\* the first fetch recorded.
C20_ImmutableKeyIgnoresRepo ==
    /\ \A e \in cache :
          e.inAttrs.type = AttrStr(s_git_tarball) => DOMAIN e.inAttrs = {"type", "rev"}
    /\ SameRevElsewhere =>
          /\ call.pc \in {"lookupImmutable", "wrapper", "done"}
          /\ NoDownload(call)
          /\ call.pc # "lookupImmutable" =>
                /\ Len(call.trace) = 1
                /\ IsLookup(call.trace[1], immutableAttrs(Get(This(call).rev)), TRUE)
                /\ Get(call.tree).storePath = Get(Get(last).storePath)

\* C20 witness: a fetch of bob/proj at the rev that a fetch of alice/proj
\* inserted returned the store path of alice/proj.
C20_Witness ==
    /\ SameRevElsewhere
    /\ Returned
    /\ This(call).owner = s_bob
    /\ Get(call.tree).storePath.owner = s_alice

----------------------------------------------------------------------------
(* Properties of concurrent calls (checked under SpecConcurrent).          *)

\* No call to the downloader or to the cache failed in the call.
NoFailure(f) == \A k \in 1..Len(f.trace) : f.trace[k].op \in {"download", "add"} => f.trace[k].ok

\* The two records a fetchTree of a branch of alice/proj at revision h
\* writes when it runs alone on an empty cache.
LoneRecords(this, h) ==
    LET sp == [name |-> "source", owner |-> this.owner, repo |-> this.repo, rev |-> h]
        info == [rev |-> AttrStr(to_string_Base16(h)),
                 lastModified |-> AttrInt(LastModifiedOf(h))]
    IN  {[inAttrs |-> [type |-> AttrStr(s_github), owner |-> AttrStr(this.owner),
                       repo |-> AttrStr(this.repo), ref |-> AttrStr(s_master)],
          infoAttrs |-> info, storePath |-> sp, immutable |-> FALSE],
         [inAttrs |-> [type |-> AttrStr(s_git_tarball),
                       rev |-> AttrStr(to_string_Base16(h))],
          infoAttrs |-> info, storePath |-> sp, immutable |-> TRUE]}

\* C13: two concurrent fetchTree calls of the same branch, however they are
\* interleaved: the cache never holds a record other than the two a call
\* running alone writes; and when both calls have ended without a failure
\* of the downloader or of the cache, both have succeeded, with the same
\* rev and the same store path, and the cache holds exactly those two
\* records.
C13_ConcurrentFetches ==
    IsSome(head) =>
        /\ Records(cache) \subseteq LoneRecords(This(call), Get(head))
        /\ (/\ call.pc = "done" /\ other.pc = "done"
            /\ NoFailure(call) /\ NoFailure(other))
           => /\ call.outcome = "ok" /\ other.outcome = "ok"
              /\ Get(call.input).rev = head
              /\ Get(other.input).rev = head
              /\ Get(call.tree).storePath = Get(other.tree).storePath
              /\ Records(cache) = LoneRecords(This(call), Get(head))

\* C13 witness: both calls missed in the cache, resolved the branch,
\* downloaded the tarball and inserted their records, and both returned.
C13_Witness ==
    /\ call.pc = "done" /\ other.pc = "done"
    /\ call.outcome = "ok" /\ other.outcome = "ok"
    /\ Len(call.trace) = 6
    /\ Len(other.trace) = 6

----------------------------------------------------------------------------
(* Further properties of the conversions (checked under SpecRegistry).     *)

\* The "name=value" pieces of the query of a URL string, as written.
RawParams(s) ==
    LET q == IndexOf(s, "?") IN
    IF q = 0 THEN <<>> ELSE tokenizeString(SubSeq(s, q + 1, Len(s)), "&")

\* How many times the URL string gives the query parameter name.
TimesGiven(s, name) ==
    LET ps == RawParams(s)
        n == Len(name)
    IN  Cardinality({k \in 1..Len(ps) :
                        /\ Len(ps[k]) > n
                        /\ SubSeq(ps[k], 1, n) = name
                        /\ ps[k][n + 1] = "="})

\* The segments of the path of a URL string.
PathSegments(s) == tokenizeString(parseURL(s).path, "/")

\* How many revs and how many refs the URL string supplies.
RevsSupplied(s) ==
    TimesGiven(s, s_rev)
    + (IF Len(PathSegments(s)) = 3 /\ revRegex(PathSegments(s)[3]) THEN 1 ELSE 0)

RefsSupplied(s) ==
    TimesGiven(s, s_ref)
    + (IF Len(PathSegments(s)) = 3 /\ ~revRegex(PathSegments(s)[3])
          /\ refRegex(PathSegments(s)[3]) THEN 1 ELSE 0)

\* C15 (as claimed): inputFromURL of a github URL fails with BadURL or
\* returns an input with at most one of ref and rev; it fails with BadURL
\* when the URL supplies a ref and a rev, two revs or two refs, or a third
\* path segment that is neither a rev nor a ref.
C15_RefRevExclusive ==
    (/\ res.op = "inputFromURL"
     /\ parseURL(Get(res.arg)).ok
     /\ parseURL(Get(res.arg)).scheme = s_github)
    => LET s == Get(res.arg)
           segs == PathSegments(s)
       IN  /\ \/ res.err = "BadURL"
              \/ /\ res.err = ""
                 /\ ~(IsSome(Get(res.input).ref) /\ IsSome(Get(res.input).rev))
           /\ (\/ RefsSupplied(s) >= 1 /\ RevsSupplied(s) >= 1
               \/ RefsSupplied(s) >= 2
               \/ RevsSupplied(s) >= 2
               \/ Len(segs) = 3 /\ ~revRegex(segs[3]) /\ ~refRegex(segs[3]))
              => res.err = "BadURL"

\* C18 (as claimed): to_string's assertion holds on every GitHub input
\* that inputFromURL, inputFromAttrs or applyOverrides returned.
C18_ToStringDefined ==
    (IsSome(cur) /\ Get(cur).kind = "github") => to_string(Get(cur)).err = ""

====
